---- MODULE Spec2Model ----
(***************************************************************************)
(* Blokus backend (src/server/index.js): the piece catalog and its         *)
(* transforms, the projection of a game from its move log (getGameState),  *)
(* and the place / skip request handlers over the games, players and moves *)
(* tables of one game.                                                     *)
(*                                                                         *)
(* Spec     : new games; every handler runs to completion before the next  *)
(*            request is taken (requests arrive one after the other).      *)
(* MidSpec  : the same handlers on a two-color game in which the place     *)
(*            handler has already served MidRequests, so that the two      *)
(*            colors' cells meet.                                          *)
(* ConcSpec : two requests on a new game in flight at once, each handler   *)
(*            taking one step per database query it awaits.                *)
(* ScoreSpec: the skip handler and the read on full games of one color,    *)
(*            stopped after any number of rounds (end detection, scores).  *)
(* RaceSpec : the handlers, one request after the other, on the tables two *)
(*            interleaved requests have left (equal turn numbers).         *)
(* TransformSpec: the place handler's transformShape / translate steps for *)
(*            every piece, flip flag and rotation.                         *)
(* CreateSpec: POST /api/games stepping per database query on a server    *)
(*            without games, followed by the handlers on the created game. *)
(*                                                                         *)
(* The client's placement preview (src/client/src/App.jsx: transform,      *)
(* cornerFor, canPlaceLocal) is modelled next to the server's validator.   *)
(***************************************************************************)
EXTENDS Integers, Sequences, FiniteSets, TLC

VARIABLES
    players,            \* players table of the game: colors, by order_index
    moves,              \* moves table of the game, in insertion order
    status,             \* games.status column
    board_size,         \* games.board_size column
    next_player_index,  \* games.next_player_index column
    resp,               \* the last HTTP response: [op, error], error "ok" on 200
    handlers            \* each request in flight, between its awaits, with its locals

vars == <<players, moves, status, board_size, next_player_index, resp, handlers>>

\* ------------------------------------------------------------------ bounds

\* No request is taken once the log holds this many moves more than the
\* log the game started from.
MaxMoves == 4

\* ------------------------------------------------------- catalog, geometry

PIECES ==
    [ I1 |-> << <<0,0>> >>,
      I2 |-> << <<0,0>>, <<1,0>> >>,
      I3 |-> << <<0,0>>, <<1,0>>, <<2,0>> >>,
      I4 |-> << <<0,0>>, <<1,0>>, <<2,0>>, <<3,0>> >>,
      I5 |-> << <<0,0>>, <<1,0>>, <<2,0>>, <<3,0>>, <<4,0>> >>,
      V3 |-> << <<0,0>>, <<0,1>>, <<1,0>> >>,
      L4 |-> << <<0,0>>, <<0,1>>, <<0,2>>, <<1,0>> >>,
      Z4 |-> << <<0,0>>, <<1,0>>, <<1,1>>, <<2,1>> >>,
      O4 |-> << <<0,0>>, <<1,0>>, <<0,1>>, <<1,1>> >>,
      T5 |-> << <<0,0>>, <<1,0>>, <<2,0>>, <<1,1>>, <<1,2>> >>,
      L5 |-> << <<0,0>>, <<0,1>>, <<0,2>>, <<0,3>>, <<1,0>> >>,
      Y5 |-> << <<0,0>>, <<1,0>>, <<2,0>>, <<3,0>>, <<1,1>> >>,
      N5 |-> << <<0,0>>, <<1,0>>, <<1,1>>, <<2,1>>, <<3,1>> >>,
      Z5 |-> << <<0,0>>, <<1,0>>, <<2,0>>, <<2,1>>, <<3,1>> >>,
      U5 |-> << <<0,0>>, <<2,0>>, <<0,1>>, <<1,1>>, <<2,1>> >>,
      V5 |-> << <<0,0>>, <<0,1>>, <<0,2>>, <<1,0>>, <<2,0>> >>,
      W5 |-> << <<0,0>>, <<1,0>>, <<1,1>>, <<2,1>>, <<2,2>> >>,
      X5 |-> << <<1,0>>, <<0,1>>, <<1,1>>, <<2,1>>, <<1,2>> >>,
      P5 |-> << <<0,0>>, <<1,0>>, <<0,1>>, <<1,1>>, <<0,2>> >>,
      F5 |-> << <<1,0>>, <<0,1>>, <<1,1>>, <<1,2>>, <<2,2>> >>,
      T4 |-> << <<0,0>>, <<1,0>>, <<2,0>>, <<1,1>> >> ]

DEFAULT_COLORS == <<"blue", "yellow", "red", "green">>

\* Variant: red's and green's corners exchanged (the order of the client's
\* cornerFor).
START_CORNERS_exchanged ==
    [ blue   |-> <<0, 0>>,
      yellow |-> <<19, 0>>,
      red    |-> <<19, 19>>,
      green  |-> <<0, 19>> ]

START_CORNERS ==
    [ blue   |-> <<0, 0>>,
      yellow |-> <<19, 0>>,
      red    |-> <<0, 19>>,
      green  |-> <<19, 19>> ]

\* The games.board_size column default; no statement ever sets another value.
BOARD_SIZE == 20

\* JavaScript's % : the remainder takes the sign of the dividend.
JsRem(a, b) == IF a >= 0 THEN a % b ELSE -((-a) % b)

Min(S) == CHOOSE m \in S : \A n \in S : m <= n

RECURSIVE rotateLoop(_, _)
rotateLoop(point, i) ==
    IF i <= 0 THEN point ELSE rotateLoop(<<point[2], -point[1]>>, i - 1)

\* Variant: the remainder is taken once, without the + 4 and second %.
rotateSingleRem(point, times) == rotateLoop(point, JsRem(times, 4))

\* Variant: the cells are rotated first and mirrored afterwards.
transformShapeRotateFirst(shape, rotationTimes, flipped) ==
    LET c1 == [i \in DOMAIN shape |-> rotateLoop(shape[i], JsRem(JsRem(rotationTimes, 4) + 4, 4))]
        c2 == IF flipped THEN [i \in DOMAIN c1 |-> <<-c1[i][1], c1[i][2]>>] ELSE c1
        minX == Min({c2[i][1] : i \in DOMAIN c2})
        minY == Min({c2[i][2] : i \in DOMAIN c2})
    IN  [i \in DOMAIN c2 |-> <<c2[i][1] - minX, c2[i][2] - minY>>]

\* rotate 90deg clockwise `times` times around the origin
rotate(point, times) == rotateLoop(point, JsRem(JsRem(times, 4) + 4, 4))

flip(point) == <<-point[1], point[2]>>

normalize(cells) ==
    LET minX == Min({cells[i][1] : i \in DOMAIN cells})
        minY == Min({cells[i][2] : i \in DOMAIN cells})
    IN  [i \in DOMAIN cells |-> <<cells[i][1] - minX, cells[i][2] - minY>>]

transformShape(shape, rotationTimes, flipped) ==
    LET c1 == IF flipped THEN [i \in DOMAIN shape |-> flip(shape[i])] ELSE shape
        c2 == [i \in DOMAIN c1 |-> rotate(c1[i], rotationTimes)]
    IN  normalize(c2)

translate(cells, dx, dy) ==
    [i \in DOMAIN cells |-> <<cells[i][1] + dx, cells[i][2] + dy>>]

\* `${x},${y}`: the decimal rendering of two integers joined by a comma is
\* one-to-one on integer pairs, so the pair itself is the key.
keyOfCell(x, y) == <<x, y>>

Range(s) == {s[i] : i \in DOMAIN s}

CellKeys(cells) == {keyOfCell(cells[i][1], cells[i][2]) : i \in DOMAIN cells}

\* ------------------------------------------------------------- projection

\* Object.keys(PIECES): the catalog keys in insertion order.
PIECE_KEYS ==
    << "I1", "I2", "I3", "I4", "I5", "V3", "L4", "Z4", "O4", "T5", "L5",
       "Y5", "N5", "Z5", "U5", "V5", "W5", "X5", "P5", "F5", "T4" >>

\* The one game of the model and an id no game has.
GAME_ID == "g1"
NO_GAME == "g0"

\* SQL NULL in moves.cells and moves.piece_key (a pass row sets neither).
NoCells == <<>>
NoPiece == "null"

\* The keys of the literals { blue: new Set(), yellow: ..., red: ..., green: ... }.
SET_COLORS == {"blue", "yellow", "red", "green"}

\* SELECT * FROM moves WHERE game_id=$1 ORDER BY turn_number: every ordering of
\* the rows by non-decreasing turn_number (rows with equal turn numbers come
\* in either order).
RECURSIVE orderRows(_, _)
orderRows(tbl, idx) ==
    IF idx = {} THEN {<<>>}
    ELSE LET lo == Min({tbl[i].turn_number : i \in idx})
         IN  UNION { { <<tbl[i]>> \o s : s \in orderRows(tbl, idx \ {i}) } :
                     i \in {j \in idx : tbl[j].turn_number = lo} }

OrderByTurn(tbl) ==
    IF \A i \in 1..(Len(tbl) - 1) : tbl[i].turn_number < tbl[i + 1].turn_number
    THEN {tbl}
    ELSE orderRows(tbl, DOMAIN tbl)

\* The rows the fold of getGameState (and of the place handler) takes cells from.
placedIdx(moveRows) ==
    {i \in DOMAIN moveRows : ~moveRows[i].passed /\ moveRows[i].cells # NoCells}

\* occupied: key -> color, a later occupied.set overwriting an earlier one.
occupiedOf(moveRows) ==
    LET idx  == placedIdx(moveRows)
        keys == UNION {CellKeys(moveRows[i].cells) : i \in idx}
        last(k) == CHOOSE i \in idx :
                      /\ k \in CellKeys(moveRows[i].cells)
                      /\ \A j \in idx : k \in CellKeys(moveRows[j].cells) => j <= i
    IN  [k \in keys |-> moveRows[last(k)].player_color]

\* playerCells / playerSets: color -> set of keys.
playerCellsOf(moveRows) ==
    [c \in SET_COLORS |->
        UNION {CellKeys(moveRows[i].cells) :
               i \in {j \in placedIdx(moveRows) : moveRows[j].player_color = c}}]

\* usedPieces: color -> set of piece keys.
usedPiecesOf(moveRows) ==
    [c \in SET_COLORS |->
        {moveRows[i].piece_key :
         i \in {j \in placedIdx(moveRows) : moveRows[j].player_color = c}}]

\* playerCells[m.player_color].add and usedPieces[p.color].has throw a
\* TypeError for a color outside the four keys.
projectionThrows(playerRows, moveRows) ==
    \/ \E i \in placedIdx(moveRows) : moveRows[i].player_color \notin SET_COLORS
    \/ \E i \in DOMAIN playerRows : playerRows[i] \notin SET_COLORS

remainingOf(color, moveRows) ==
    SelectSeq(PIECE_KEYS, LAMBDA k : k \notin usedPiecesOf(moveRows)[color])

\* Variant: every row of the log has to be a pass, not only the recent ones.
everyonePassedAll(playerRows, moveRows) ==
    /\ Len(moveRows) >= Len(playerRows)
    /\ \A i \in DOMAIN moveRows : moveRows[i].passed

\* recentPasses = moveRows.slice(-playerRows.length); everyonePassed
everyonePassed(playerRows, moveRows) ==
    LET n == Len(playerRows)
        recentPasses == IF Len(moveRows) <= n THEN moveRows
                        ELSE SubSeq(moveRows, Len(moveRows) - n + 1, Len(moveRows))
    IN  /\ Len(recentPasses) = n
        /\ \A i \in DOMAIN recentPasses : recentPasses[i].passed

statusOf(playerRows, moveRows, stored) ==
    IF everyonePassed(playerRows, moveRows) THEN "finished" ELSE stored

\* Variant: a remaining piece counts one, whatever its size.
RECURSIVE sumSizesCount(_)
sumSizesCount(ks) == IF ks = <<>> THEN 0 ELSE 1 + sumSizesCount(Tail(ks))

RECURSIVE sumSizes(_)
sumSizes(ks) == IF ks = <<>> THEN 0 ELSE Len(PIECES[Head(ks)]) + sumSizes(Tail(ks))

scoreOf(color, moveRows) ==
    LET remPieces  == remainingOf(color, moveRows)
        remSquares == sumSizes(remPieces)
        s0 == -remSquares
        s1 == IF Len(remPieces) = 0 THEN s0 + 15 ELSE s0
    IN  IF "I1" \in usedPiecesOf(moveRows)[color] /\ Len(remPieces) = 0
        THEN s1 + 5 ELSE s1

\* getGameState(gameId), with the rows its three SELECTs returned. found is
\* FALSE for the null it returns when no game has the id; throws is TRUE
\* when the projection raises instead of returning.
getGameState(gameId, game, playerRows, moveRows) ==
    IF gameId # GAME_ID THEN [found |-> FALSE, throws |-> FALSE]
    ELSE IF projectionThrows(playerRows, moveRows)
    THEN [found |-> TRUE, throws |-> TRUE]
    ELSE LET st == statusOf(playerRows, moveRows, game.status)
             colors == Range(playerRows)
         IN  [ found |-> TRUE, throws |-> FALSE,
               game |-> [ status |-> st, board_size |-> game.board_size,
                          next_player_index |-> game.next_player_index ],
               players |-> playerRows,
               moves |-> moveRows,
               remaining |-> [c \in colors |-> remainingOf(c, moveRows)],
               scores |-> IF st = "finished"
                          THEN [c \in colors |-> scoreOf(c, moveRows)]
                          ELSE <<>>,
               occupiedCount |-> Cardinality(DOMAIN occupiedOf(moveRows)) ]

\* The games row as stored.
gameRow == [status |-> status, board_size |-> board_size,
            next_player_index |-> next_player_index]

isWithinBoard(cells, size) ==
    \A i \in DOMAIN cells :
        cells[i][1] >= 0 /\ cells[i][2] >= 0 /\ cells[i][1] < size /\ cells[i][2] < size

\* Variant: a cell two columns to the right counts as a corner as well.
hasCornerContactWide(cells, playerSet) ==
    \E i \in DOMAIN cells :
        LET x == cells[i][1]
            y == cells[i][2]
        IN  \E c \in {<<x-1, y-1>>, <<x-1, y+1>>, <<x+1, y-1>>, <<x+1, y+1>>, <<x+2, y>>} :
                keyOfCell(c[1], c[2]) \in playerSet

hasCornerContact(cells, playerSet) ==
    \E i \in DOMAIN cells :
        LET x == cells[i][1]
            y == cells[i][2]
        IN  \E c \in {<<x-1, y-1>>, <<x-1, y+1>>, <<x+1, y-1>>, <<x+1, y+1>>} :
                keyOfCell(c[1], c[2]) \in playerSet

hasEdgeContact(cells, playerSet) ==
    \E i \in DOMAIN cells :
        LET x == cells[i][1]
            y == cells[i][2]
        IN  \E s \in {<<x-1, y>>, <<x+1, y>>, <<x, y-1>>, <<x, y+1>>} :
                keyOfCell(s[1], s[2]) \in playerSet

\* ------------------------------------------------------------- validation

\* const placed = translate(transformShape(PIECES[piece_key], rotation, flipped), ...)
placedCells(req) ==
    translate(transformShape(PIECES[req.piece_key], req.rotation, req.flipped),
              req.position[1], req.position[2])

\* Variant: the loop leaves after its first cell.
overlapsFirstCell(placed, occupied) ==
    keyOfCell(placed[1][1], placed[1][2]) \in DOMAIN occupied

\* for (const [x,y] of placed) if (occupied.has(keyOfCell(x,y))) ... 'overlap'
overlaps(placed, occupied) ==
    \E i \in DOMAIN placed : keyOfCell(placed[i][1], placed[i][2]) \in DOMAIN occupied

\* !state.moves.some(m => m.player_color === player_color && !m.passed)
isFirstMove(moveRows, color) ==
    ~\E i \in DOMAIN moveRows :
        moveRows[i].player_color = color /\ ~moveRows[i].passed

\* Variant: only the column of the corner is compared.
occupiesCornerColumn(placed, corner) ==
    \E i \in DOMAIN placed : placed[i][1] = corner[1]

\* placed.some(([x,y]) => x === corner[0] && y === corner[1])
occupiesCorner(placed, corner) ==
    \E i \in DOMAIN placed : placed[i][1] = corner[1] /\ placed[i][2] = corner[2]

\* players[state.game.next_player_index].color
currentColor(state) == state.players[state.game.next_player_index + 1]

\* "compute occupied and sets": the place handler's own fold of state.moves.
boardOf(state) ==
    IF state.found /\ ~state.throws
    THEN [occupied |-> occupiedOf(state.moves), playerSets |-> playerCellsOf(state.moves)]
    ELSE [occupied |-> <<>>, playerSets |-> <<>>]

\* Variant: the first-move, corner and edge rules are decided before bounds
\* and overlap.
ruleErrorRulesFirst(req, state, board) ==
    LET placed == placedCells(req)
        color  == req.player_color
        mySet  == board.playerSets[color]
    IN  IF isFirstMove(state.moves, color) /\ ~occupiesCorner(placed, START_CORNERS[color])
        THEN "first_move_must_cover_corner"
        ELSE IF ~isFirstMove(state.moves, color) /\ ~hasCornerContact(placed, mySet)
        THEN "must_touch_same_color_corner"
        ELSE IF hasEdgeContact(placed, mySet) THEN "cannot_touch_same_color_edge"
        ELSE IF ~isWithinBoard(placed, state.game.board_size) THEN "out_of_bounds"
        ELSE IF overlaps(placed, board.occupied) THEN "overlap"
        ELSE "ok"

\* The rule checks of the place handler once it is the requester's turn:
\* bounds, overlap, first move or corner contact, edge contact, in this order.
\* START_CORNERS[player_color] is undefined for a color outside the four, and
\* corner[0] then throws.
ruleError(req, state, board) ==
    LET placed   == placedCells(req)
        color    == req.player_color
    IN  IF ~isWithinBoard(placed, state.game.board_size) THEN "out_of_bounds"
        ELSE IF overlaps(placed, board.occupied) THEN "overlap"
        ELSE IF color \notin SET_COLORS THEN "failed_to_place"
        ELSE LET mySet == board.playerSets[color]
             IN  IF isFirstMove(state.moves, color)
                    /\ ~occupiesCorner(placed, START_CORNERS[color])
                 THEN "first_move_must_cover_corner"
                 ELSE IF ~isFirstMove(state.moves, color)
                         /\ ~hasCornerContact(placed, mySet)
                 THEN "must_touch_same_color_corner"
                 ELSE IF hasEdgeContact(placed, mySet)
                 THEN "cannot_touch_same_color_edge"
                 ELSE "ok"

\* Variant: the turn is checked after the rules, the order in which the
\* checks are listed in the design.
placeErrorTurnLast(req, state, board) ==
    IF req.piece_key \notin DOMAIN PIECES THEN "invalid_piece"
    ELSE IF Len(req.position) # 2 THEN "invalid_position"
    ELSE IF state.throws THEN "failed_to_place"
    ELSE IF ~state.found THEN "not_found"
    ELSE IF ruleError(req, state, board) \notin {"ok", "first_move_must_cover_corner",
                "must_touch_same_color_corner", "cannot_touch_same_color_edge"}
    THEN ruleError(req, state, board)
    ELSE IF currentColor(state) # req.player_color THEN "not_your_turn"
    ELSE ruleError(req, state, board)

\* The response of POST /api/games/:id/place to req when getGameState returned
\* state: the error of the first return taken, "ok" when the move is inserted.
placeError(req, state, board) ==
    IF req.piece_key \notin DOMAIN PIECES THEN "invalid_piece"
    ELSE IF Len(req.position) # 2 THEN "invalid_position"
    ELSE IF state.throws THEN "failed_to_place"
    ELSE IF ~state.found THEN "not_found"
    ELSE IF currentColor(state) # req.player_color THEN "not_your_turn"
    ELSE ruleError(req, state, board)

\* The response of POST /api/games/:id/skip.
skipError(req, state) ==
    IF state.throws THEN "failed_to_skip"
    ELSE IF ~state.found THEN "not_found"
    ELSE IF currentColor(state) # req.player_color THEN "not_your_turn"
    ELSE "ok"

\* Variant: the edge check answers without returning.
writesAfterEdge(err) == err \in {"ok", "cannot_touch_same_color_edge"}

\* Whether the handler goes on to its INSERT and UPDATE after answering err.
writes(err) == err = "ok"

\* const turnNumber = state.moves.length + 1
turnNumberOf(state) == Len(state.moves) + 1

\* Variant: the + 1 is missing.
nextIndexNoStep(state) == state.game.next_player_index % Len(state.players)

\* const nextIndex = (state.game.next_player_index + 1) % players.length
nextIndexOf(state) == (state.game.next_player_index + 1) % Len(state.players)

\* The row of the place handler's INSERT (rotation and flipped, which nothing
\* on the server reads back, are left out of the row).
placeRow(req, state) ==
    [ player_color |-> req.player_color, piece_key |-> req.piece_key,
      cells |-> placedCells(req), passed |-> FALSE,
      turn_number |-> turnNumberOf(state) ]

\* Variant: the skip is stored as a placement of I1 on the color's corner.
skipRowPlaced(req, state) ==
    [ player_color |-> req.player_color, piece_key |-> "I1",
      cells |-> <<START_CORNERS[req.player_color]>>, passed |-> FALSE,
      turn_number |-> turnNumberOf(state) ]

\* The row of the skip handler's INSERT.
skipRow(req, state) ==
    [ player_color |-> req.player_color, piece_key |-> NoPiece,
      cells |-> NoCells, passed |-> TRUE,
      turn_number |-> turnNumberOf(state) ]

\* ----------------------------------------------------------------- inputs

\* The player lists new games are created with: no body (DEFAULT_COLORS) and
\* a caller-supplied two-color list.
PlayerLists == {DEFAULT_COLORS, <<"blue", "yellow">>}

\* The colors requests are sent for.
ReqColors == {"blue", "yellow", "red", "green"}

\* The catalog pieces requests name, and a key the catalog lacks.
PlayKeys == {"I1", "I2", "V3"}
BadKey == "Q9"

\* The (rotation, flipped) pairs requests carry: a negative rotation, the
\* default, a quarter turn, and a mirrored piece.
Turns == {<<-1, FALSE>>, <<0, FALSE>>, <<1, FALSE>>, <<0, TRUE>>}

\* A request without position (or with a non-numeric one).
NoPosition == <<>>

\* Anchors requests carry: around blue's and yellow's corners and around the
\* cells where the two colors of the mid game meet, off the board included.
Near(c) == {<<c[1] + dx, c[2] + dy>> : dx \in -1..1, dy \in 0..1}
Anchors ==
    Near(START_CORNERS["blue"]) \cup Near(START_CORNERS["yellow"]) \cup Near(<<10, 0>>)

\* Anchors of the requests sent for red and green: their corners and blue's.
FarAnchors == {START_CORNERS["red"], START_CORNERS["green"], START_CORNERS["blue"]}

placeRequest(g, c, k, t, pos) ==
    [ game |-> g, player_color |-> c, piece_key |-> k,
      rotation |-> t[1], flipped |-> t[2], position |-> pos ]

PlaceRequests ==
    { placeRequest(GAME_ID, c, k, t, pos) :
        c \in {"blue", "yellow"}, k \in PlayKeys, t \in Turns, pos \in Anchors }
    \cup
    { placeRequest(GAME_ID, c, k, t, pos) :
        c \in {"red", "green"}, k \in {"I1", "I2"},
        t \in {<<0, FALSE>>, <<1, FALSE>>}, pos \in FarAnchors }
    \cup
    { placeRequest(g, c, k, <<0, FALSE>>, pos) :
        g \in {GAME_ID, NO_GAME}, c \in {"blue", "yellow"}, k \in {"I1", BadKey},
        pos \in {NoPosition, START_CORNERS["blue"], START_CORNERS["yellow"]} }

SkipRequests == [ game : {GAME_ID, NO_GAME}, player_color : ReqColors ]

\* The place requests that bring a two-color game to the mid game: both
\* colors have built a chain along the top rows, and the chains meet.
MidRequests ==
    LET r(c, k, x, y) ==
            [ op |-> "place", req |-> placeRequest(GAME_ID, c, k, <<0, FALSE>>, <<x, y>>) ]
    IN  << r("blue", "I5", 0, 0), r("yellow", "I5", 15, 0),
           r("blue", "I4", 5, 1), r("yellow", "I4", 11, 1),
           r("blue", "I1", 9, 0) >>

\* The response of the handler of call c = [op, req] when getGameState
\* returned state, and the row it inserts.
callError(c, state) ==
    IF c.op = "place" THEN placeError(c.req, state, boardOf(state))
    ELSE skipError(c.req, state)

callRow(c, state) ==
    IF c.op = "place" THEN placeRow(c.req, state) ELSE skipRow(c.req, state)

\* The tables after the handlers have served calls[1..n] one after the other
\* on a new game of the colors ps.
RECURSIVE served(_, _, _)
served(ps, calls, n) ==
    IF n = 0 THEN [moves |-> <<>>, next_player_index |-> 0]
    ELSE LET t == served(ps, calls, n - 1)
             state == getGameState(calls[n].req.game,
                          [ status |-> "active", board_size |-> BOARD_SIZE,
                            next_player_index |-> t.next_player_index ],
                          ps, t.moves)
         IN  IF writes(callError(calls[n], state))
             THEN [ moves |-> Append(t.moves, callRow(calls[n], state)),
                    next_player_index |-> nextIndexOf(state) ]
             ELSE t

MidGame == served(<<"blue", "yellow">>, MidRequests, Len(MidRequests))

\* A full game of blue: (piece, x, y) of 21 place requests, unrotated, that
\* the place handler accepts in this order, I1 last. T4 and I1 touch only
\* earlier pieces, so the handler accepts them in the other order as well.
ScorePlacements ==
    << <<"I5", 0, 0>>,  <<"I4", 5, 1>>,  <<"I3", 2, 2>>,  <<"I2", 0, 3>>,
       <<"V3", 2, 4>>,  <<"L4", 0, 6>>,  <<"Z4", 5, 3>>,  <<"O4", 2, 7>>,
       <<"T5", 9, 0>>,  <<"L5", 4, 9>>,  <<"Y5", 4, 6>>,  <<"N5", 8, 3>>,
       <<"Z5", 0, 12>>, <<"U5", 12, 1>>, <<"V5", 8, 7>>,  <<"W5", 0, 14>>,
       <<"X5", 6, 10>>, <<"P5", 0, 17>>, <<"F5", 11, 5>>, <<"T4", 15, 0>>,
       <<"I1", 1, 9>> >>

\* The two orders of the full game: I1 placed last, and I1 placed before T4.
ScoreOrders ==
    LET n == Len(ScorePlacements)
    IN  { ScorePlacements,
          [i \in 1..n |-> IF i = n - 1 THEN ScorePlacements[n]
                          ELSE IF i = n THEN ScorePlacements[n - 1]
                          ELSE ScorePlacements[i]] }

\* The requests of the first k rounds of a full game: blue places the next
\* piece of the order, yellow skips.
ScoreCalls(order, k) ==
    [ i \in 1..(2 * k) |->
        IF i % 2 = 1
        THEN [ op |-> "place",
               req |-> placeRequest(GAME_ID, "blue", order[(i + 1) \div 2][1], <<0, FALSE>>,
                                    <<order[(i + 1) \div 2][2], order[(i + 1) \div 2][3]>>) ]
        ELSE [ op |-> "skip", req |-> [game |-> GAME_ID, player_color |-> "yellow"] ] ]

\* The rows and the turn pointer after the first k rounds of a full game in
\* the given order.
ScoreGame(order, k) ==
    [ moves |-> [ i \in 1..(2 * k) |->
                    IF ScoreCalls(order, k)[i].op = "place"
                    THEN [ player_color |-> "blue",
                           piece_key |-> ScoreCalls(order, k)[i].req.piece_key,
                           cells |-> placedCells(ScoreCalls(order, k)[i].req),
                           passed |-> FALSE, turn_number |-> i ]
                    ELSE [ player_color |-> "yellow", piece_key |-> NoPiece,
                           cells |-> NoCells, passed |-> TRUE, turn_number |-> i ] ],
      next_player_index |-> 0 ]

\* The handlers, serving the requests of a full game one after the other on a
\* new game, accept every one and leave the rows and pointer of ScoreGame.
ScoreServed(order) ==
    LET n     == Len(ScorePlacements)
        calls == ScoreCalls(order, n)
        rows  == ScoreGame(order, n).moves
    IN  \A i \in 1..(2 * n) :
            \E state \in { getGameState(GAME_ID,
                                [ status |-> "active", board_size |-> BOARD_SIZE,
                                  next_player_index |-> (i - 1) % 2 ],
                                <<"blue", "yellow">>, SubSeq(rows, 1, i - 1)) } :
                /\ writes(callError(calls[i], state))
                /\ callRow(calls[i], state) = rows[i]
                /\ nextIndexOf(state) = i % 2

\* The games the scoring is looked at from: a full game in either order,
\* stopped after any number of rounds.
ScoreStarts ==
    { ScoreGame(o, k) : o \in ScoreOrders, k \in 0..Len(ScorePlacements) }

\* ------------------------------------------------------------ the program

\* The requests in flight under ConcSpec, and a handler that has none.
Handlers == 1..2
Idle == [pc |-> "idle"]

\* POST /api/games has created the game: the games row with its column
\* defaults, one players row per color, no move.
Init ==
    /\ status = "active"
    /\ board_size = BOARD_SIZE
    /\ resp = [op |-> "create", error |-> "ok"]
    /\ players \in PlayerLists
    /\ moves = <<>>
    /\ next_player_index = 0
    /\ handlers = [h \in Handlers |-> Idle]

\* The two-color game after the place handler has served MidRequests, every
\* one of them accepted.
InitMid ==
    /\ status = "active"
    /\ board_size = BOARD_SIZE
    /\ resp = [op |-> "place", error |-> "ok"]
    /\ players = <<"blue", "yellow">>
    /\ Len(MidGame.moves) = Len(MidRequests)
    /\ moves = MidGame.moves
    /\ next_player_index = MidGame.next_player_index
    /\ handlers = [h \in Handlers |-> Idle]

\* The two-color game after some rounds of a full game of blue, every request
\* of which the handlers accepted.
InitScore ==
    /\ status = "active"
    /\ board_size = BOARD_SIZE
    /\ players = <<"blue", "yellow">>
    /\ \A o \in ScoreOrders : ScoreServed(o)
    /\ \E t \in ScoreStarts :
          /\ moves = t.moves
          /\ next_player_index = t.next_player_index
          /\ resp = IF t.moves = <<>> THEN [op |-> "create", error |-> "ok"]
                    ELSE [op |-> "skip", error |-> "ok"]
    /\ handlers = [h \in Handlers |-> Idle]

\* The state both handlers of a race on a new two-color game read.
RaceState ==
    getGameState(GAME_ID,
        [status |-> "active", board_size |-> BOARD_SIZE, next_player_index |-> 0],
        <<"blue", "yellow">>, <<>>)

\* The tables after a skip and a place request for blue, in flight together
\* on a new two-color game, have both read the empty log and both inserted
\* and updated: two rows with the same turn number.
RaceTables ==
    [ moves |-> << skipRow([game |-> GAME_ID, player_color |-> "blue"], RaceState),
                   placeRow(placeRequest(GAME_ID, "blue", "I1", <<0, FALSE>>,
                                         START_CORNERS["blue"]), RaceState) >>,
      next_player_index |-> nextIndexOf(RaceState) ]

\* The two-color game after that race, with no request in flight.
InitRace ==
    /\ status = "active"
    /\ board_size = BOARD_SIZE
    /\ resp = [op |-> "place", error |-> "ok"]
    /\ players = <<"blue", "yellow">>
    /\ moves = RaceTables.moves
    /\ next_player_index = RaceTables.next_player_index
    /\ handlers = [h \in Handlers |-> Idle]

\* The number of moves of the log the game started from: the mid game, or the
\* leading rounds (blue places, yellow passes) of a full game of blue, which
\* opens with a piece no later request names.
Base ==
    IF /\ Len(moves) >= Len(MidRequests)
       /\ SubSeq(moves, 1, Len(MidRequests)) = MidGame.moves
    THEN Len(MidRequests)
    ELSE IF moves # <<>> /\ moves[1].piece_key = ScorePlacements[1][1]
    THEN 2 * (Cardinality({ n \in 0..(Len(moves) \div 2) :
                \A r \in 1..n : ~moves[2 * r - 1].passed /\ moves[2 * r].passed }) - 1)
    ELSE 0

CanTake == Len(moves) - Base < MaxMoves

\* POST /api/games/:id/place, from its first line to its response.
Place ==
    /\ CanTake
    /\ \E moveRows \in OrderByTurn(moves) : \E game \in {GAME_ID, NO_GAME} :
        \E state \in {getGameState(game, gameRow, players, moveRows)} :
        \E board \in {boardOf(state)} :
        \E req \in {r \in PlaceRequests : r.game = game} :
        \E err \in {placeError(req, state, board)} :
            /\ resp' = [op |-> "place", error |-> err]
            /\ IF writes(err)
               THEN /\ moves' = Append(moves, placeRow(req, state))
                    /\ next_player_index' = nextIndexOf(state)
               ELSE UNCHANGED <<moves, next_player_index>>
    /\ UNCHANGED <<players, status, board_size, handlers>>

\* POST /api/games/:id/skip, from its first line to its response.
Skip ==
    /\ CanTake
    /\ \E moveRows \in OrderByTurn(moves) : \E req \in SkipRequests :
        LET state == getGameState(req.game, gameRow, players, moveRows)
            err   == skipError(req, state)
        IN  /\ resp' = [op |-> "skip", error |-> err]
            /\ IF writes(err)
               THEN /\ moves' = Append(moves, skipRow(req, state))
                    /\ next_player_index' = nextIndexOf(state)
               ELSE UNCHANGED <<moves, next_player_index>>
    /\ UNCHANGED <<players, status, board_size, handlers>>

\* GET /api/games/:id: 404 for an unknown id, else the projected state.
Get ==
    /\ \E game \in {GAME_ID, NO_GAME} : \E moveRows \in OrderByTurn(moves) :
        LET state == getGameState(game, gameRow, players, moveRows)
        IN  resp' = [op |-> "get", error |-> IF state.found THEN "ok" ELSE "not_found"]
    /\ UNCHANGED <<players, moves, status, board_size, next_player_index, handlers>>

Next == Place \/ Skip \/ Get

Spec == Init /\ [][Next]_vars

MidSpec == InitMid /\ [][Next]_vars

\* Requests served one after the other on the tables a race has left.
RaceSpec == InitRace /\ [][Next]_vars

\* Full games played on by passes alone: the skip handler and the read.
ScoreNext == Skip \/ Get

ScoreSpec == InitScore /\ [][ScoreNext]_vars

\* ------------------------------------------- the handlers, await by await

\* The calls in flight under ConcSpec.
ConcCalls ==
    { [op |-> "place", req |-> placeRequest(GAME_ID, c, k, <<0, FALSE>>, pos)] :
        c \in {"blue", "yellow"}, k \in {"I1", "I2"},
        pos \in {START_CORNERS["blue"], <<18, 0>>} }
    \cup
    { [op |-> "place", req |-> placeRequest(GAME_ID, "blue", BadKey, <<0, FALSE>>, <<0, 0>>)],
      [op |-> "place", req |-> placeRequest(NO_GAME, "blue", "I1", <<0, FALSE>>, <<0, 0>>)] }
    \cup
    { [op |-> "skip", req |-> r] :
        r \in {q \in SkipRequests : q.game = GAME_ID /\ q.player_color \in {"blue", "yellow"}} }

\* What getGameState returned to handler h: the games row of its first
\* SELECT and the moves rows of its third.
stateOf(h) ==
    getGameState(handlers[h].call.req.game, handlers[h].game, players, handlers[h].rows)

Answer(h, err) ==
    /\ resp' = [op |-> handlers[h].call.op, error |-> err]
    /\ handlers' = [handlers EXCEPT ![h].pc = "done", ![h].error = err]

\* A request arrives. The place handler returns invalid_piece and
\* invalid_position before its first query.
Receive(h) ==
    /\ handlers[h].pc = "idle"
    /\ \E c \in ConcCalls :
        LET early == IF c.op # "place" THEN "ok"
                     ELSE IF c.req.piece_key \notin DOMAIN PIECES THEN "invalid_piece"
                     ELSE IF Len(c.req.position) # 2 THEN "invalid_position"
                     ELSE "ok"
        IN  /\ handlers' = [handlers EXCEPT ![h] =
                    [ pc |-> IF early = "ok" THEN "read_game" ELSE "done",
                      call |-> c, game |-> gameRow, rows |-> <<>>, error |-> early ]]
            /\ resp' = IF early = "ok" THEN resp ELSE [op |-> c.op, error |-> early]
    /\ UNCHANGED <<players, moves, status, board_size, next_player_index>>

\* getGameState: SELECT * FROM games WHERE id=$1 (null when no row), then the
\* players rows, which no statement changes after creation.
ReadGame(h) ==
    /\ handlers[h].pc = "read_game"
    /\ IF handlers[h].call.req.game # GAME_ID
       THEN Answer(h, "not_found")
       ELSE /\ handlers' = [handlers EXCEPT ![h].pc = "read_moves", ![h].game = gameRow]
            /\ UNCHANGED resp
    /\ UNCHANGED <<players, moves, status, board_size, next_player_index>>

\* getGameState: SELECT * FROM moves ... ORDER BY turn_number, then the
\* handler's checks up to its INSERT.
ReadMoves(h) ==
    /\ handlers[h].pc = "read_moves"
    /\ \E moveRows \in OrderByTurn(moves) :
        \E state \in {getGameState(GAME_ID, handlers[h].game, players, moveRows)} :
        \E err \in {callError(handlers[h].call, state)} :
            IF writes(err)
            THEN /\ handlers' = [handlers EXCEPT ![h].pc = "insert", ![h].rows = moveRows]
                 /\ UNCHANGED resp
            ELSE /\ resp' = [op |-> handlers[h].call.op, error |-> err]
                 /\ handlers' = [handlers EXCEPT ![h].pc = "done", ![h].rows = moveRows,
                                                  ![h].error = err]
    /\ UNCHANGED <<players, moves, status, board_size, next_player_index>>

\* INSERT INTO moves(...) with the turn number of the state read.
Insert(h) ==
    /\ handlers[h].pc = "insert"
    /\ moves' = Append(moves, callRow(handlers[h].call, stateOf(h)))
    /\ handlers' = [handlers EXCEPT ![h].pc = "update"]
    /\ UNCHANGED <<players, status, board_size, next_player_index, resp>>

\* UPDATE games SET next_player_index=$2 with the index of the state read.
Update(h) ==
    /\ handlers[h].pc = "update"
    /\ next_player_index' = nextIndexOf(stateOf(h))
    /\ handlers' = [handlers EXCEPT ![h].pc = "respond"]
    /\ UNCHANGED <<players, moves, status, board_size, resp>>

\* const newState = await getGameState(gameId); res.json(newState)
Respond(h) ==
    /\ handlers[h].pc = "respond"
    /\ Answer(h, "ok")
    /\ UNCHANGED <<players, moves, status, board_size, next_player_index>>

ConcNext ==
    \E h \in Handlers :
        Receive(h) \/ ReadGame(h) \/ ReadMoves(h) \/ Insert(h) \/ Update(h) \/ Respond(h)

ConcSpec == Init /\ [][ConcNext]_vars

\* ------------------------------------- the place handler's transform steps

\* The largest rotation, in quarter turns either way, a request carries.
MaxRotation == 5

Rotations == (0 - MaxRotation)..MaxRotation

\* Place requests of the color to move on a new game: every catalog piece,
\* every rotation, mirrored or not, anchored on blue's corner and away from it.
TransformRequests ==
    { placeRequest(GAME_ID, "blue", k, <<r, f>>, pos) :
        k \in DOMAIN PIECES, r \in Rotations, f \in BOOLEAN,
        pos \in {START_CORNERS["blue"], <<3, 2>>} }

\* A place request on a new game has passed the turn check: the handler is
\* about to compute `transformed` and `placed`.
InitTransform ==
    /\ status = "active"
    /\ board_size = BOARD_SIZE
    /\ resp = [op |-> "create", error |-> "ok"]
    /\ players = DEFAULT_COLORS
    /\ moves = <<>>
    /\ next_player_index = 0
    /\ \E req \in TransformRequests :
          handlers = [h \in Handlers |->
                        IF h = 1
                        THEN [ pc |-> "transform", call |-> [op |-> "place", req |-> req],
                               transformed |-> <<>>, placed |-> <<>> ]
                        ELSE Idle]

\* const transformed = transformShape(PIECES[piece_key], rotation, flipped)
Transform(h) ==
    /\ handlers[h].pc = "transform"
    /\ handlers' = [handlers EXCEPT
          ![h].pc = "translate",
          ![h].transformed = transformShape(PIECES[handlers[h].call.req.piece_key],
                                            handlers[h].call.req.rotation,
                                            handlers[h].call.req.flipped)]
    /\ UNCHANGED <<players, moves, status, board_size, next_player_index, resp>>

\* const placed = translate(transformed, position.x, position.y)
Translate(h) ==
    /\ handlers[h].pc = "translate"
    /\ handlers' = [handlers EXCEPT
          ![h].pc = "placed",
          ![h].placed = translate(handlers[h].transformed,
                                  handlers[h].call.req.position[1],
                                  handlers[h].call.req.position[2])]
    /\ UNCHANGED <<players, moves, status, board_size, next_player_index, resp>>

TransformNext == \E h \in Handlers : Transform(h) \/ Translate(h)

TransformSpec == InitTransform /\ [][TransformNext]_vars

\* ------------------------------------------------------------ state views

\* ----------------------------------------------------- creating the game

\* The status column of a game that has no games row.
NO_ROW == "no_row"

\* The players field of the bodies sent to POST /api/games: none (or an
\* empty list), lists of catalog colors in another order, and lists with a
\* color of the caller's own.
CreateBodies ==
    { <<>>, <<"yellow", "blue">>, <<"red">>, <<"purple">>, <<"blue", "purple">> }

\* colors of POST /api/games: the body's list when it is a non-empty array.
colorsOf(body) == IF Len(body) > 0 THEN body ELSE DEFAULT_COLORS

\* The server is listening and its tables hold no game.
InitCreate ==
    /\ status = NO_ROW
    /\ board_size = 0
    /\ resp = [op |-> "listen", error |-> "ok"]
    /\ players = <<>>
    /\ moves = <<>>
    /\ next_player_index = 0
    /\ handlers = [h \in Handlers |-> Idle]

\* POST /api/games reads the body and picks the colors.
CreateReceive ==
    /\ handlers[1].pc = "idle"
    /\ \E body \in CreateBodies :
          handlers' = [handlers EXCEPT ![1] = [pc |-> "insert_game", colors |-> colorsOf(body)]]
    /\ UNCHANGED <<players, moves, status, board_size, next_player_index, resp>>

\* INSERT INTO games(id): the row takes the column defaults.
CreateInsertGame ==
    /\ handlers[1].pc = "insert_game"
    /\ status' = "active"
    /\ board_size' = BOARD_SIZE
    /\ next_player_index' = 0
    /\ handlers' = [handlers EXCEPT ![1].pc = "insert_players"]
    /\ UNCHANGED <<players, moves, resp>>

\* The players inserts of the loop, awaited together: one row per color,
\* order_index its position in the list.
CreateInsertPlayers ==
    /\ handlers[1].pc = "insert_players"
    /\ players' = handlers[1].colors
    /\ handlers' = [handlers EXCEPT ![1].pc = "project"]
    /\ UNCHANGED <<moves, status, board_size, next_player_index, resp>>

\* getGameState(id) and the response: the state, or the catch block's 500.
CreateRespond ==
    /\ handlers[1].pc = "project"
    /\ \E state \in {getGameState(GAME_ID, gameRow, players, moves)} :
          IF state.throws
          THEN /\ resp' = [op |-> "create", error |-> "failed_to_create_game"]
               /\ handlers' = [handlers EXCEPT ![1].pc = "failed"]
          ELSE /\ resp' = [op |-> "create", error |-> "ok"]
               /\ handlers' = [handlers EXCEPT ![1].pc = "created"]
    /\ UNCHANGED <<players, moves, status, board_size, next_player_index>>

\* The requests of a client that has the id of the created game.
CreatedPlace == handlers[1].pc = "created" /\ Place
CreatedSkip == handlers[1].pc = "created" /\ Skip
CreatedGet == handlers[1].pc = "created" /\ Get

CreateNext ==
    \/ CreateReceive
    \/ CreateInsertGame
    \/ CreateInsertPlayers
    \/ CreateRespond
    \/ CreatedPlace
    \/ CreatedSkip
    \/ CreatedGet

CreateSpec == InitCreate /\ [][CreateNext]_vars

\* ------------------------------------------------- the client's preview

\* BOARD_SIZE of the client (src/client/src/App.jsx).
CLIENT_BOARD_SIZE == 20

\* An empty square of the client's occupancy grid.
EmptySquare == "null"

\* transform(shape, rotation, flipped) of the client: mirror, then rot
\* quarter turns [y, -x], then shift the minima to 0.
transform(shape, rotation, flipped) ==
    LET rot == JsRem(JsRem(rotation, 4) + 4, 4)
        c1 == IF flipped THEN [i \in DOMAIN shape |-> <<-shape[i][1], shape[i][2]>>]
              ELSE shape
        c2 == [i \in DOMAIN c1 |-> rotateLoop(c1[i], rot)]
        minX == Min({c2[i][1] : i \in DOMAIN c2})
        minY == Min({c2[i][2] : i \in DOMAIN c2})
    IN  [i \in DOMAIN c2 |-> <<c2[i][1] - minX, c2[i][2] - minY>>]

\* cornerFor(color) of the client, as <<x, y>>.
cornerFor(color) ==
    CASE color = "blue"   -> <<0, 0>>
      [] color = "yellow" -> <<CLIENT_BOARD_SIZE - 1, 0>>
      [] color = "red"    -> <<CLIENT_BOARD_SIZE - 1, CLIENT_BOARD_SIZE - 1>>
      [] color = "green"  -> <<0, CLIENT_BOARD_SIZE - 1>>

\* boardOccupancy(): occ[y][x] is the color of the last non-pass move of
\* game.moves that holds <<x, y>>, null for a square no move holds.
boardOccupancy(moveRows) ==
    [y \in 0..(CLIENT_BOARD_SIZE - 1) |->
        [x \in 0..(CLIENT_BOARD_SIZE - 1) |->
            IF \E i \in placedIdx(moveRows) : <<x, y>> \in Range(moveRows[i].cells)
            THEN moveRows[CHOOSE i \in placedIdx(moveRows) :
                            /\ <<x, y>> \in Range(moveRows[i].cells)
                            /\ \A j \in placedIdx(moveRows) :
                                  <<x, y>> \in Range(moveRows[j].cells) => j <= i].player_color
            ELSE EmptySquare]]

playerHasAny(color, occ) ==
    \E yy \in 0..(CLIENT_BOARD_SIZE - 1) : \E xx \in 0..(CLIENT_BOARD_SIZE - 1) :
        occ[yy][xx] = color

\* The squares of the grid at the offsets dirs from <<x, y>> that color holds.
touches(occ, color, x, y, dirs) ==
    \E d \in dirs :
        LET nx == x + d[1]
            ny == y + d[2]
        IN  /\ nx >= 0 /\ ny >= 0 /\ nx < CLIENT_BOARD_SIZE /\ ny < CLIENT_BOARD_SIZE
            /\ occ[ny][nx] = color

\* canPlaceLocal({piece, rotation, flipped, anchor, color, occ}) of the client.
canPlaceLocal(piece, rotation, flipped, anchor, color, occ) ==
    LET tr == transform(piece, rotation, flipped)
        targets == [i \in DOMAIN tr |-> <<anchor[1] + tr[i][1], anchor[2] + tr[i][2]>>]
        outside(t) == t[1] < 0 \/ t[2] < 0 \/ t[1] >= CLIENT_BOARD_SIZE \/ t[2] >= CLIENT_BOARD_SIZE
        dirs == {<<1, 0>>, <<-1, 0>>, <<0, 1>>, <<0, -1>>}
        diags == {<<1, 1>>, <<1, -1>>, <<-1, 1>>, <<-1, -1>>}
    IN  IF \E i \in DOMAIN targets :
              outside(targets[i]) \/ occ[targets[i][2]][targets[i][1]] # EmptySquare
        THEN FALSE
        ELSE IF \E i \in DOMAIN targets : touches(occ, color, targets[i][1], targets[i][2], dirs)
        THEN FALSE
        ELSE IF ~playerHasAny(color, occ)
        THEN \E i \in DOMAIN targets : targets[i] = cornerFor(color)
        ELSE \E i \in DOMAIN targets : touches(occ, color, targets[i][1], targets[i][2], diags)

\* The placements the client previews on the game it shows: a catalog piece
\* of the color to move (currentColor of the client) at an anchor.
Previews(state) ==
    { r \in PlaceRequests :
        /\ r.game = GAME_ID
        /\ r.piece_key \in DOMAIN PIECES
        /\ Len(r.position) = 2
        /\ r.player_color = currentColor(state) }

\* What getGameState(GAME_ID) returns in the current state.
Snapshots ==
    {getGameState(GAME_ID, gameRow, players, moveRows) : moveRows \in OrderByTurn(moves)}

\* The status a response reports for the game.
Finished ==
    \A moveRows \in OrderByTurn(moves) : statusOf(players, moveRows, status) = "finished"

\* The well-formed place requests for the game: known piece, numeric position.
WellFormed ==
    {r \in PlaceRequests :
        r.game = GAME_ID /\ r.piece_key \in DOMAIN PIECES /\ Len(r.position) = 2}

\* The errors with which a request is turned down.
Rejections ==
    { "invalid_piece", "invalid_position", "not_found", "not_your_turn",
      "out_of_bounds", "overlap", "cannot_touch_same_color_edge",
      "first_move_must_cover_corner", "must_touch_same_color_corner" }

\* The color of a cell key among the placed moves of the log.
ColorsAt(k) == {moves[i].player_color : i \in {j \in placedIdx(moves) : k \in CellKeys(moves[j].cells)}}

\* Two cells sharing an edge.
EdgeAdjacent(a, b) ==
    \/ a[1] = b[1] /\ (a[2] = b[2] + 1 \/ b[2] = a[2] + 1)
    \/ a[2] = b[2] /\ (a[1] = b[1] + 1 \/ b[1] = a[1] + 1)

\* ------------------------------------------------------------------ claims

\* C1: no board cell is claimed by more than one accepted placement: the cell
\* lists of the non-pass moves of the log are pairwise disjoint, no move lists
\* a cell twice, and occupancy gives every occupied cell the one color whose
\* cell set holds it.
C1_NoCellClaimedTwice ==
    /\ \A i \in placedIdx(moves) : \A j \in placedIdx(moves) :
          i # j => CellKeys(moves[i].cells) \cap CellKeys(moves[j].cells) = {}
    /\ \A i \in placedIdx(moves) :
          Cardinality(CellKeys(moves[i].cells)) = Len(moves[i].cells)
    /\ \A k \in DOMAIN occupiedOf(moves) :
          /\ ColorsAt(k) = {occupiedOf(moves)[k]}
          /\ \A c \in SET_COLORS : k \in playerCellsOf(moves)[c] <=> c = occupiedOf(moves)[k]

\* C1 witness: a placement that would have taken a cell of the other color
\* has just been turned down with overlap, and both colors hold cells.
C1_Witness ==
    /\ resp = [op |-> "place", error |-> "overlap"]
    /\ Cardinality({moves[i].player_color : i \in placedIdx(moves)}) >= 2
    /\ \E state \in Snapshots : \E req \in WellFormed :
          /\ req.player_color = currentColor(state)
          /\ placeError(req, state, boardOf(state)) = "overlap"
          /\ \E k \in CellKeys(placedCells(req)) :
                k \in DOMAIN occupiedOf(moves) /\ occupiedOf(moves)[k] # req.player_color

\* C2 (as claimed): the log never holds two non-pass moves of one color with
\* the same piece key.
C2_PieceOncePerColor ==
    \A i \in placedIdx(moves) : \A j \in placedIdx(moves) :
        (i # j /\ moves[i].player_color = moves[j].player_color)
            => moves[i].piece_key # moves[j].piece_key

\* A handler that has inserted its move.
Inserted(h) ==
    \/ handlers[h].pc \in {"update", "respond"}
    \/ handlers[h].pc = "done" /\ handlers[h].error = "ok"

\* C3 (as claimed): two place requests, or a place and a skip request, in
\* flight at once never both insert a move after validating against the same
\* rows of the move log, and once both are answered the move log and the turn
\* pointer are those of serving the two requests one after the other, in one
\* order or the other.
C3_Serializable ==
    /\ \A h1 \in Handlers : \A h2 \in Handlers :
          ( /\ h1 # h2 /\ Inserted(h1) /\ Inserted(h2)
            /\ handlers[h1].call.op = "place" )
              => handlers[h1].rows # handlers[h2].rows
    /\ ( /\ \A h \in Handlers : handlers[h].pc = "done"
         /\ \E h \in Handlers : handlers[h].call.op = "place" )
          => [moves |-> moves, next_player_index |-> next_player_index]
                \in { served(players, <<handlers[1].call, handlers[2].call>>, 2),
                      served(players, <<handlers[2].call, handlers[1].call>>, 2) }

\* C4 (as claimed): once the game is finished, no request appends a move.
C4_FinishedRejects == [][Finished => moves' = moves]_vars

\* C5 (as claimed): finished is terminal, a finished game stays finished.
C5_FinishedTerminal == [][Finished => Finished']_vars

\* C6: a step that appends a move sets the turn pointer to (pointer + 1) mod
\* playerCount, and a step that appends none leaves the pointer alone.
C6_TurnAdvance ==
    [][ /\ moves' # moves =>
            /\ Len(moves') = Len(moves) + 1
            /\ next_player_index' = (next_player_index + 1) % Len(players)
        /\ moves' = moves => next_player_index' = next_player_index ]_vars

\* C6 witness: a four-player game whose pointer went 0, 1, 2, 3 and is back at 0.
C6_Witness ==
    /\ players = DEFAULT_COLORS
    /\ Len(moves) = 4
    /\ next_player_index = 0
    /\ \A i \in 1..4 : moves[i].player_color = DEFAULT_COLORS[i]
    /\ \E i \in 1..4 : moves[i].passed
    /\ \E i \in 1..4 : ~moves[i].passed

\* C7: a well-formed place request, and a skip request, for a color other
\* than the one at the turn pointer is answered not_your_turn whatever its
\* geometry, and a request answered not_your_turn appends no move.
C7_NotYourTurn ==
    /\ [](\A state \in Snapshots : \A board \in {boardOf(state)} :
            /\ \A req \in WellFormed :
                  req.player_color # currentColor(state)
                      => placeError(req, state, board) = "not_your_turn"
            /\ \A req \in SkipRequests :
                  (req.game = GAME_ID /\ req.player_color # currentColor(state))
                      => skipError(req, state) = "not_your_turn")
    /\ [][resp'.error = "not_your_turn" => moves' = moves]_vars

\* C7 witness: a place request out of turn was answered not_your_turn although
\* such a request exists whose cells leave the board, and one whose cells
\* would have been a legal move for the color whose turn it is.
C7_Witness ==
    /\ resp = [op |-> "place", error |-> "not_your_turn"]
    /\ moves # <<>>
    /\ \E state \in Snapshots : \E req \in WellFormed :
          /\ req.player_color # currentColor(state)
          /\ ~isWithinBoard(placedCells(req), BOARD_SIZE)
    /\ \E state \in Snapshots : \E req \in WellFormed :
          /\ req.player_color # currentColor(state)
          /\ ruleError([req EXCEPT !.player_color = currentColor(state)],
                       state, boardOf(state)) = "ok"

\* C8: a step whose response is a rejection leaves the move log, the turn
\* pointer and the status as they were, along with the player list and the
\* board size, so that the state reported for the game (a function of these
\* tables alone) is the one reported before the request.
C8_RejectionNoEffect ==
    [][resp'.error \in Rejections =>
          /\ moves' = moves
          /\ next_player_index' = next_player_index
          /\ status' = status
          /\ players' = players
          /\ board_size' = board_size ]_vars

\* C8 witness: the last rule check of the place handler turned a request down
\* in a game with moves.
C8_Witness ==
    /\ resp = [op |-> "place", error |-> "cannot_touch_same_color_edge"]
    /\ moves # <<>>

\* The starting corners as the claim lists them.
ClaimedCorner(c) ==
    CASE c = "blue" -> <<0, 0>> [] c = "yellow" -> <<19, 0>>
      [] c = "red" -> <<0, 19>> [] c = "green" -> <<19, 19>>

\* C9: while the color to move has no non-pass move, an in-bounds and
\* non-overlapping placement of it is accepted when one of its cells is the
\* color's starting corner and is answered first_move_must_cover_corner when
\* none is; and the first non-pass move a color gets into the log holds the
\* color's starting corner.
C9_FirstMoveCorner ==
    /\ [](\A state \in Snapshots : \A board \in {boardOf(state)} :
            \A req \in WellFormed :
                ( /\ req.player_color = currentColor(state)
                  /\ isFirstMove(moves, req.player_color)
                  /\ isWithinBoard(placedCells(req), BOARD_SIZE)
                  /\ CellKeys(placedCells(req)) \cap DOMAIN occupiedOf(moves) = {} )
                => placeError(req, state, board) =
                     IF ClaimedCorner(req.player_color) \in CellKeys(placedCells(req))
                     THEN "ok" ELSE "first_move_must_cover_corner")
    /\ [][ (moves' # moves /\ ~moves'[Len(moves')].passed
                /\ isFirstMove(moves, moves'[Len(moves')].player_color))
           => ClaimedCorner(moves'[Len(moves')].player_color)
                  \in CellKeys(moves'[Len(moves')].cells) ]_vars

\* C9 witness: a color that passed before has its first placement in the log,
\* on its corner, and the last request was turned down for missing a corner.
C9_Witness ==
    /\ resp = [op |-> "place", error |-> "first_move_must_cover_corner"]
    /\ \E i \in placedIdx(moves) :
          /\ \E j \in 1..(i - 1) :
                moves[j].passed /\ moves[j].player_color = moves[i].player_color
          /\ isFirstMove(SubSeq(moves, 1, i - 1), moves[i].player_color)
          /\ ClaimedCorner(moves[i].player_color) \in CellKeys(moves[i].cells)

\* C10 (as claimed): no two cells of one color from different moves share an
\* edge, and a placement of the color to move that is in bounds, overlaps
\* nothing and has a cell edge-adjacent to a cell of its own color is answered
\* cannot_touch_same_color_edge.
C10_EdgeRule ==
    /\ \A i \in placedIdx(moves) : \A j \in placedIdx(moves) :
          (i # j /\ moves[i].player_color = moves[j].player_color)
              => \A a \in CellKeys(moves[i].cells) : \A b \in CellKeys(moves[j].cells) :
                    ~EdgeAdjacent(a, b)
    /\ \A state \in Snapshots : \A board \in {boardOf(state)} :
          \A req \in WellFormed :
              ( /\ req.player_color = currentColor(state)
                /\ isWithinBoard(placedCells(req), BOARD_SIZE)
                /\ CellKeys(placedCells(req)) \cap DOMAIN occupiedOf(moves) = {}
                /\ \E a \in CellKeys(placedCells(req)) :
                      \E b \in playerCellsOf(moves)[req.player_color] : EdgeAdjacent(a, b) )
              => placeError(req, state, board) = "cannot_touch_same_color_edge"

\* Two cells touching at a corner only (NE/NW/SE/SW).
DiagAdjacent(a, b) ==
    /\ (a[1] = b[1] + 1 \/ b[1] = a[1] + 1)
    /\ (a[2] = b[2] + 1 \/ b[2] = a[2] + 1)

\* The cells a color holds through the first n rows of the log.
CellsBefore(color, n) == playerCellsOf(SubSeq(moves, 1, n))[color]

\* C11: every placement in the log that is not its color's first has a cell
\* diagonally adjacent to a cell the color held before it, and a placement of
\* the color to move, not its first, that is in bounds, overlaps nothing and
\* touches no cell of its color by an edge or by a corner is answered
\* must_touch_same_color_corner.
C11_CornerContact ==
    /\ \A i \in placedIdx(moves) :
          ~isFirstMove(SubSeq(moves, 1, i - 1), moves[i].player_color)
              => \E a \in CellKeys(moves[i].cells) :
                    \E b \in CellsBefore(moves[i].player_color, i - 1) : DiagAdjacent(a, b)
    /\ \A state \in Snapshots : \A board \in {boardOf(state)} :
          \A color \in {currentColor(state)} :
          \A taken \in {DOMAIN board.occupied} : \A mine \in {board.playerSets[color]} :
              ~isFirstMove(moves, color) =>
                  \A req \in {r \in WellFormed : r.player_color = color} :
                  \A placed \in {placedCells(req)} :
                      ( /\ isWithinBoard(placed, BOARD_SIZE)
                        /\ CellKeys(placed) \cap taken = {}
                        /\ \A a \in CellKeys(placed) : \A b \in mine :
                              ~EdgeAdjacent(a, b) /\ ~DiagAdjacent(a, b) )
                      => placeError(req, state, board) = "must_touch_same_color_corner"

\* C11 witness: a placement was accepted on top of the mid game, the request
\* after it was answered must_touch_same_color_corner, and the color to move
\* has a placement that touches none of its cells.
C11_Witness ==
    /\ resp = [op |-> "place", error |-> "must_touch_same_color_corner"]
    /\ Len(moves) > Len(MidRequests)
    /\ ~moves[Len(moves)].passed
    /\ \E state \in Snapshots : \E req \in WellFormed :
          /\ req.player_color = currentColor(state)
          /\ ~isFirstMove(moves, req.player_color)
          /\ isWithinBoard(placedCells(req), BOARD_SIZE)
          /\ CellKeys(placedCells(req)) \cap DOMAIN occupiedOf(moves) = {}
          /\ \A a \in CellKeys(placedCells(req)) :
                \A b \in playerCellsOf(moves)[req.player_color] :
                    ~EdgeAdjacent(a, b) /\ ~DiagAdjacent(a, b)

\* C12 (as claimed): the edge rule is decided before the corner and first-move
\* rules: a placement of the color to move that is in bounds, overlaps
\* nothing, has a cell edge-adjacent to a cell of its color and no cell
\* diagonally adjacent to one is answered cannot_touch_same_color_edge.
C12_EdgeBeforeCorner ==
    \A state \in Snapshots : \A board \in {boardOf(state)} :
        \A color \in {currentColor(state)} :
        \A taken \in {DOMAIN board.occupied} : \A mine \in {board.playerSets[color]} :
            \A req \in {r \in WellFormed : r.player_color = color} :
            \A placed \in {placedCells(req)} :
                ( /\ isWithinBoard(placed, BOARD_SIZE)
                  /\ CellKeys(placed) \cap taken = {}
                  /\ \E a \in CellKeys(placed) : \E b \in mine : EdgeAdjacent(a, b)
                  /\ \A a \in CellKeys(placed) : \A b \in mine : ~DiagAdjacent(a, b) )
                => placeError(req, state, board) = "cannot_touch_same_color_edge"

\* A cell off the board of the claim: a coordinate outside 0..boardSize-1.
OffBoard(k) == k[1] \notin 0..(BOARD_SIZE - 1) \/ k[2] \notin 0..(BOARD_SIZE - 1)

\* C13: bounds and overlap are decided before the adjacency and corner rules:
\* a placement of the color to move with a cell off the board is answered
\* out_of_bounds, and one with every cell on the board and a cell held by any
\* color is answered overlap, whatever else it breaks.
C13_BoundsOverlapFirst ==
    \A state \in Snapshots : \A board \in {boardOf(state)} :
        \A color \in {currentColor(state)} : \A taken \in {DOMAIN board.occupied} :
            \A req \in {r \in WellFormed : r.player_color = color} :
            \A cells \in {CellKeys(placedCells(req))} :
                /\ (\E k \in cells : OffBoard(k))
                      => placeError(req, state, board) = "out_of_bounds"
                /\ ((\A k \in cells : ~OffBoard(k)) /\ cells \cap taken # {})
                      => placeError(req, state, board) = "overlap"

\* C13 witness: a request was answered overlap, and the color to move has a
\* placement that leaves the board while it covers a taken cell, one on the
\* board that covers a cell of the other color and touches its own color by
\* an edge, and one that covers a cell of its own color.
C13_Witness ==
    /\ resp = [op |-> "place", error |-> "overlap"]
    /\ \E state \in Snapshots : \E board \in {boardOf(state)} :
        \E color \in {currentColor(state)} : \E taken \in {DOMAIN board.occupied} :
          /\ \E req \in {r \in WellFormed : r.player_color = color} :
                /\ \E k \in CellKeys(placedCells(req)) : OffBoard(k)
                /\ CellKeys(placedCells(req)) \cap taken # {}
          /\ \E req \in {r \in WellFormed : r.player_color = color} :
                /\ \A k \in CellKeys(placedCells(req)) : ~OffBoard(k)
                /\ \E k \in CellKeys(placedCells(req)) :
                      k \in taken /\ board.occupied[k] # color
                /\ hasEdgeContact(placedCells(req), board.playerSets[color])
          /\ \E req \in {r \in WellFormed : r.player_color = color} :
                /\ \A k \in CellKeys(placedCells(req)) : ~OffBoard(k)
                /\ CellKeys(placedCells(req)) \cap board.playerSets[color] # {}

\* The log holds at least playerCount moves and its most recent playerCount
\* moves are passes.
LastRoundPassed ==
    /\ Len(moves) >= Len(players)
    /\ \A i \in (Len(moves) - Len(players) + 1)..Len(moves) : moves[i].passed

\* C14: whenever the most recent playerCount moves of the log are all passes,
\* the status reported for the game is finished, whatever came before them.
C14_EndDetection ==
    LastRoundPassed => \A state \in Snapshots : state.game.status = "finished"

\* C14 witness: a game reported finished whose log has a placement before the
\* closing passes.
C14_Witness ==
    /\ LastRoundPassed
    /\ \E i \in DOMAIN moves : ~moves[i].passed
    /\ \A state \in Snapshots : state.game.status = "finished"

\* The piece of the last non-pass move of a color in the log.
LastPiece(color) ==
    LET own == {i \in placedIdx(moves) : moves[i].player_color = color}
    IN  moves[CHOOSE i \in own : \A j \in own : j <= i].piece_key

\* The sum of the cell counts of a set of catalog pieces.
RECURSIVE CellCount(_)
CellCount(ks) ==
    IF ks = {} THEN 0
    ELSE LET k == CHOOSE x \in ks : TRUE
         IN  Cardinality(Range(PIECES[k])) + CellCount(ks \ {k})

\* The catalog pieces no non-pass move of the color names.
Unused(color) ==
    {k \in DOMAIN PIECES :
        ~\E i \in placedIdx(moves) : moves[i].player_color = color /\ moves[i].piece_key = k}

\* C15 (as claimed): in a finished game a color that has used every catalog
\* piece scores 20 when the last piece it placed is I1 and 15 when it is
\* another piece.
C15_LastPieceBonus ==
    \A state \in Snapshots :
        state.game.status = "finished" =>
            \A c \in Range(players) :
                Unused(c) = {} =>
                    state.scores[c] = IF LastPiece(c) = "I1" THEN 20 ELSE 15

\* C16: in a finished game a color with an unused catalog piece scores minus
\* the cell count of its unused pieces, bonus-free and never above 0.
C16_UnusedSquares ==
    \A state \in Snapshots :
        state.game.status = "finished" =>
            \A c \in Range(players) :
                Unused(c) # {} =>
                    /\ state.scores[c] = 0 - CellCount(Unused(c))
                    /\ state.scores[c] <= 0

\* C16 witness: a finished game in which blue has every piece but I1 in the
\* log and scores -1, and yellow, with no piece placed, scores -89.
C16_Witness ==
    /\ Unused("blue") = {"I1"}
    /\ \E state \in Snapshots :
          /\ state.game.status = "finished"
          /\ state.scores["blue"] = -1
          /\ state.scores["yellow"] = -89

\* C17 (as claimed): also when requests interleave, the k-th move appended to
\* the log has turn number k, so the turn numbers are pairwise distinct and
\* increase in append order.
C17_TurnNumbers ==
    /\ \A i \in DOMAIN moves : moves[i].turn_number = i
    /\ \A i \in DOMAIN moves : \A j \in DOMAIN moves :
          i < j => moves[i].turn_number < moves[j].turn_number

\* The state of InitRace is one ConcSpec ends in.
RaceReached ==
    /\ \A h \in Handlers : handlers[h].pc = "done"
    /\ moves = RaceTables.moves
    /\ next_player_index = RaceTables.next_player_index

\* C18 (as claimed): the projection is a function of the stored game: any
\* two projections of the same tables agree on occupancy, remaining pieces,
\* status and scores, and the read changes none of the tables.
C18_ProjectionDeterministic ==
    /\ [](\A s1 \in Snapshots : \A s2 \in Snapshots :
            /\ occupiedOf(s1.moves) = occupiedOf(s2.moves)
            /\ s1.remaining = s2.remaining
            /\ s1.game.status = s2.game.status
            /\ s1.scores = s2.scores)
    /\ [][resp'.op = "get" =>
            UNCHANGED <<players, moves, status, board_size, next_player_index>>]_vars

\* The handlers that have computed `transformed`.
Transformed == {h \in Handlers : handlers[h].pc \in {"translate", "placed"}}

\* C19: for every catalog piece, flip flag and integer rotation r, negative
\* ones included, transformShape gives the cells it gives for r mod 4:
\* rotation 4 those of rotation 0, rotation -1 those of rotation 3; and with
\* rotation 0 and no flip it gives the piece's own normalized cells.
C19_RotationMod4 ==
    \A h \in Transformed :
        \A req \in {handlers[h].call.req} : \A shape \in {PIECES[req.piece_key]} :
            /\ handlers[h].transformed = transformShape(shape, req.rotation % 4, req.flipped)
            /\ req.rotation = 4 => handlers[h].transformed = transformShape(shape, 0, req.flipped)
            /\ req.rotation = -1 => handlers[h].transformed = transformShape(shape, 3, req.flipped)
            /\ (req.rotation = 0 /\ ~req.flipped) => handlers[h].transformed = normalize(shape)
            /\ handlers[h].pc = "placed" =>
                  handlers[h].placed =
                      placedCells([req EXCEPT !.rotation = req.rotation % 4])

\* C19 witness: the handler has transformed F5 with rotation -1 into the
\* cells of rotation 3, which are not those of rotation 0.
C19_Witness ==
    \E h \in Transformed :
        /\ handlers[h].pc = "placed"
        /\ handlers[h].call.req.piece_key = "F5"
        /\ handlers[h].call.req.rotation = -1
        /\ ~handlers[h].call.req.flipped
        /\ handlers[h].transformed = transformShape(PIECES["F5"], 3, FALSE)
        /\ CellKeys(handlers[h].transformed) # CellKeys(transformShape(PIECES["F5"], 0, FALSE))

\* The mirror and the quarter turn as the design states them.
MirrorX(p) == <<0 - p[1], p[2]>>
QuarterTurn(p) == <<p[2], 0 - p[1]>>

QuarterTurns(p, n) ==
    CASE n = 0 -> p
      [] n = 1 -> QuarterTurn(p)
      [] n = 2 -> QuarterTurn(QuarterTurn(p))
      [] n = 3 -> QuarterTurn(QuarterTurn(QuarterTurn(p)))

\* Cells moved so that the least x and the least y are 0.
Normalized(cells) ==
    [i \in DOMAIN cells |->
        << cells[i][1] - Min({cells[j][1] : j \in DOMAIN cells}),
           cells[i][2] - Min({cells[j][2] : j \in DOMAIN cells}) >>]

\* A piece rotated r times and mirrored afterwards, through transformShape.
RotateThenMirror(shape, r) == transformShape(transformShape(shape, r, FALSE), 0, TRUE)

\* C20: transformShape mirrors first, then turns clockwise r times, then
\* normalizes; and for F5 and for N5 some rotation r gives a cell set with
\* the mirror first that differs from the one with the rotation first.
C20_MirrorBeforeRotate ==
    /\ \A h \in Transformed :
          \A req \in {handlers[h].call.req} : \A shape \in {PIECES[req.piece_key]} :
              handlers[h].transformed =
                  Normalized([i \in DOMAIN shape |->
                      QuarterTurns(IF req.flipped THEN MirrorX(shape[i]) ELSE shape[i],
                                   req.rotation % 4)])
    /\ \A k \in {"F5", "N5"} : \E r \in Rotations :
          CellKeys(transformShape(PIECES[k], r, TRUE)) # CellKeys(RotateThenMirror(PIECES[k], r))

\* C20 witness: the handler has transformed a mirrored F5 with one quarter
\* turn into cells that rotating first and mirroring afterwards does not give.
C20_Witness ==
    \E h \in Transformed :
        /\ handlers[h].call.req.piece_key = "F5"
        /\ handlers[h].call.req.rotation = 1
        /\ handlers[h].call.req.flipped
        /\ CellKeys(handlers[h].transformed) # CellKeys(RotateThenMirror(PIECES["F5"], 1))

\* The remaining pieces of every color of the game, from the log.
RemainingAll(moveRows) == [c \in Range(players) |-> remainingOf(c, moveRows)]

\* C21: an accepted skip appends exactly one move, a pass of the requester,
\* and advances the turn pointer, and leaves occupancy, every color's cell
\* set and every color's used and remaining pieces as they were.
C21_SkipFrame ==
    [][(resp'.op = "skip" /\ resp'.error = "ok") =>
          /\ Len(moves') = Len(moves) + 1
          /\ SubSeq(moves', 1, Len(moves)) = moves
          /\ moves'[Len(moves')].passed
          /\ moves'[Len(moves')].player_color = players[next_player_index + 1]
          /\ next_player_index' = (next_player_index + 1) % Len(players)
          /\ occupiedOf(moves') = occupiedOf(moves)
          /\ playerCellsOf(moves') = playerCellsOf(moves)
          /\ usedPiecesOf(moves') = usedPiecesOf(moves)
          /\ RemainingAll(moves') = RemainingAll(moves) ]_vars

\* C21 witness: a skip was accepted in a game whose log holds a placement.
C21_Witness ==
    /\ resp = [op |-> "skip", error |-> "ok"]
    /\ moves # <<>>
    /\ moves[Len(moves)].passed
    /\ DOMAIN occupiedOf(moves) # {}

\* No request is between its first query and its response.
Quiet == \A h \in Handlers : handlers[h].pc \in {"idle", "done"}

\* C24 (as claimed): whenever no request is in flight, the stored turn pointer
\* is the number of moves in the log mod playerCount.
C24_PointerCountsMoves ==
    Quiet => next_player_index = Len(moves) % Len(players)

\* The colors with a non-pass move in the log.
Placers == {moves[i].player_color : i \in placedIdx(moves)}

\* C25: every color with a non-pass move in the log occupies its own starting
\* corner: the corner is among the color's cells and occupancy gives it to
\* the color.
C25_CornerHeld ==
    \A c \in Placers :
        /\ ClaimedCorner(c) \in playerCellsOf(moves)[c]
        /\ ClaimedCorner(c) \in DOMAIN occupiedOf(moves)
        /\ occupiedOf(moves)[ClaimedCorner(c)] = c

\* C25 witness: all four colors have placed, each on its own corner.
C25_Witness ==
    /\ Placers = SET_COLORS
    /\ \A c \in SET_COLORS : occupiedOf(moves)[ClaimedCorner(c)] = c

\* The create request has been answered.
CreateAnswered == handlers[1].pc \in {"created", "failed"}

\* C22 (as claimed): after a create request that reported failure the game
\* has no games row and no players row; right after one that reported
\* success the games row and one players row per color exist and the turn
\* pointer is 0.
C22_CreateAllOrNothing ==
    /\ handlers[1].pc = "failed" => (status = NO_ROW /\ players = <<>>)
    /\ (handlers[1].pc = "created" /\ resp.op = "create") =>
          /\ status = "active"
          /\ players = handlers[1].colors
          /\ next_player_index = 0

\* C23 (as claimed): a create request with any non-empty list of colors
\* succeeds with the players in list order, and no later place or skip of
\* the game ends in a server fault.
C23_AnyColorsCreate ==
    CreateAnswered =>
        /\ handlers[1].pc = "created"
        /\ players = handlers[1].colors
        /\ resp.error \notin {"failed_to_create_game", "failed_to_place", "failed_to_skip"}

\* C26 (as claimed): on every board, for the color to move and every piece,
\* rotation, flip and anchor, the client's canPlaceLocal is true exactly when
\* the place handler accepts the placement.
C26_PreviewAgrees ==
    \A moveRows \in OrderByTurn(moves) :
    \A state \in {getGameState(GAME_ID, gameRow, players, moveRows)} :
    \A board \in {boardOf(state)} :
    \A occ \in {boardOccupancy(state.moves)} :
    \A r \in Previews(state) :
        canPlaceLocal(PIECES[r.piece_key], r.rotation, r.flipped, r.position,
                      r.player_color, occ)
          <=> (placeError(r, state, board) = "ok")

\* The cells of the catalog piece k are 1 to 5 distinct cells whose least x
\* and least y are 0.
CatalogShape(k) ==
    /\ Len(PIECES[k]) \in 1..5
    /\ Cardinality(CellKeys(PIECES[k])) = Len(PIECES[k])
    /\ normalize(PIECES[k]) = PIECES[k]

\* C27 (as claimed): the catalog holds 21 pieces, each a normalized set of 1
\* to 5 distinct cells, and no rotation and mirroring of a catalog piece,
\* normalized, is the cell set of another catalog piece.
C27_CatalogDistinct ==
    /\ Cardinality(DOMAIN PIECES) = 21
    /\ \A k \in DOMAIN PIECES : CatalogShape(k)
    /\ \A h \in Handlers :
          handlers[h].pc \in {"translate", "placed"} =>
             \A k \in DOMAIN PIECES \ {handlers[h].call.req.piece_key} :
                CellKeys(handlers[h].transformed) # CellKeys(PIECES[k])

====
